---- MODULE Spec2Model ----
(***************************************************************************)
(* Session key server (SessionKeyServer.java) and WebSocket relay          *)
(* (ws-server.js) of the secure streaming prototype.                       *)
(*                                                                         *)
(* Strings the code indexes into (request bodies, session ids, Base64      *)
(* text) are sequences of one-character strings; keys are sequences of     *)
(* bytes.                                                                  *)
(***************************************************************************)
EXTENDS Integers, Sequences, FiniteSets, Bags, TLC

(* ------------------------------ bounds --------------------------------- *)

\* HTTP requests the key server receives in one run.
MaxReq == 4
\* Distinct values the key generator can produce.
NumKeys == 2
\* WebSocket connections the relay accepts in one run.
NumConns == 3
\* Largest counter a frame carries.
MaxCounter == 3
\* Frames whose fan-out the frame history records in one run.
MaxFrames == 2
\* Width W of the replay window the frame claims are stated for; the relay
\* keeps no window of any width.
WindowWidth == 2
\* Length an outbound queue is held to in the backpressure claim; the relay
\* sets no limit, and a run follows a queue to one message past this length.
QueueLimit == 2
\* WebSocket objects one client creates in a run.
MaxSockets == 3
\* Message events waiting for the client's onmessage handler.
MaxInbox == 1

\* Length of the nonce of a frame.
IvBytes == 12

(* --------------------------- program constants -------------------------- *)

\* kg.init(256)
KeyBits == 256
KeyBytes == KeyBits \div 8

(* ------------------------------ strings -------------------------------- *)

Quote == "\""

\* "\"" + field + "\"" for field = "sessionId"
SessionIdKey == <<Quote, "s", "e", "s", "s", "i", "o", "n", "I", "d", Quote>>

\* String.indexOf(t, from), 1-based; 0 when t does not occur at or after from.
IndexOf(s, t, from) ==
    LET hits == {i \in from..(Len(s) - Len(t) + 1) : SubSeq(s, i, i + Len(t) - 1) = t}
    IN  IF hits = {} THEN 0 ELSE CHOOSE i \in hits : \A j \in hits : i <= j

\* extractField(json, "sessionId"): found = FALSE is Java's null.
ExtractField(json, key) ==
    LET k == IndexOf(json, key, 1)
        c == IF k = 0 THEN 0 ELSE IndexOf(json, <<":">>, k)
        q == IF c = 0 THEN 0 ELSE IndexOf(json, <<Quote>>, c)
        e == IF q = 0 THEN 0 ELSE IndexOf(json, <<Quote>>, q + 1)
    IN  IF e = 0
        THEN [found |-> FALSE, value |-> <<>>]
        ELSE [found |-> TRUE, value |-> SubSeq(json, q + 1, e - 1)]

\* The JSON text {"sessionId":"<sid>"} a client posts.
SessionBody(sid) == <<"{">> \o SessionIdKey \o <<":", Quote>> \o sid \o <<Quote, "}">>

\* Request bodies the server is given: two sessions, an empty id, no field, a
\* non-string value, another field.
Bodies ==
    { SessionBody(<<"a">>),
      SessionBody(<<"b">>),
      SessionBody(<<>>),
      <<"{", "}">>,
      <<"{">> \o SessionIdKey \o <<":", "1", "}">>,
      <<"{", Quote, "i", "d", Quote, ":", Quote, "a", Quote, "}">> }

\* The session ids that pass the handlers' null/empty test.
SessionIds ==
    {ExtractField(b, SessionIdKey).value :
        b \in {x \in Bodies : ExtractField(x, SessionIdKey).found
                              /\ ExtractField(x, SessionIdKey).value # <<>>}}

Methods == {"POST", "post", "OPTIONS", "GET"}

\* String.equalsIgnoreCase over the request methods.
ToUpper(m) == IF m = "post" THEN "POST" ELSE m
EqualsIgnoreCase(a, b) == ToUpper(a) = ToUpper(b)

(* ------------------------------- keys ---------------------------------- *)

\* Absent map entry (Map.get returns null).
NoKey == <<>>

\* sk.getEncoded(): the i-th value the generator can produce, KeyBytes bytes.
GenerateKey(i) == [j \in 1..KeyBytes |-> (i * 73 + j * 151) % 256]

KeySpace == {GenerateKey(i) : i \in 1..NumKeys}

Base64Alphabet ==
    <<"A","B","C","D","E","F","G","H","I","J","K","L","M","N","O","P",
      "Q","R","S","T","U","V","W","X","Y","Z","a","b","c","d","e","f",
      "g","h","i","j","k","l","m","n","o","p","q","r","s","t","u","v",
      "w","x","y","z","0","1","2","3","4","5","6","7","8","9","+","/">>

Base64Char(n) == Base64Alphabet[n + 1]

\* Base64.getEncoder().encodeToString(bytes): 3 bytes to 4 characters, "=" padding.
RECURSIVE Base64Encode(_)
Base64Encode(bytes) ==
    IF Len(bytes) = 0 THEN <<>>
    ELSE IF Len(bytes) = 1 THEN
        <<Base64Char(bytes[1] \div 4), Base64Char((bytes[1] % 4) * 16), "=", "=">>
    ELSE IF Len(bytes) = 2 THEN
        <<Base64Char(bytes[1] \div 4),
          Base64Char((bytes[1] % 4) * 16 + bytes[2] \div 16),
          Base64Char((bytes[2] % 16) * 4), "=">>
    ELSE
        <<Base64Char(bytes[1] \div 4),
          Base64Char((bytes[1] % 4) * 16 + bytes[2] \div 16),
          Base64Char((bytes[2] % 16) * 4 + bytes[3] \div 64),
          Base64Char(bytes[3] % 64)>>
        \o Base64Encode(SubSeq(bytes, 4, Len(bytes)))

\* The encodings of the keys the generator can produce, computed once.
EncodedKeys == [k \in KeySpace \cup {NoKey} |-> Base64Encode(k)]

\* Base64.getEncoder().encodeToString(key) for a stored or generated key.
EncodeToString(key) == EncodedKeys[key]

(* ------------------------------- state --------------------------------- *)

VARIABLES
    sessionKeys,    \* SessionKeyServer.sessionKeys: session id -> key bytes or NoKey
    generated,      \* session id -> how often the key-generating function ran for it
    handling,       \* bag of exchanges whose handler has built its response
    returned,       \* bag of exchanges whose response sendJson has written
    clients,        \* wss.clients: each socket's readyState, ws.sessionId, ws.role
    sent,           \* what the last message handler sent to each socket
    rotateHandled,  \* sessions with a key for which the relay has handled a host's rotate
    clientIds,      \* the clientId of the hello that gave each socket its ws.sessionId
    history,        \* the frame fan-outs observed so far, oldest first
    rotations,      \* the rotate messages of bound sockets observed so far
    bufferedAmount, \* client.bufferedAmount: messages sent to each socket and not yet written out
    app             \* the state of one SecureStreamingApp component and its sockets

keyVars == <<sessionKeys, generated, handling, returned>>
relayVars == <<clients, sent, rotateHandled, clientIds, history, rotations, bufferedAmount>>
\* What the relay's handlers leave alone unless a specification observes it.
observed == <<history, rotations, bufferedAmount, app>>
vars == <<sessionKeys, generated, handling, returned, clients, sent, rotateHandled,
          clientIds, history, rotations, bufferedAmount, app>>

\* An HTTP exchange: the context path it came in on and the response to it.
Exchange(endpoint, resp) == [endpoint |-> endpoint, resp |-> resp]

\* The exchanges accepted so far.
Accepted == BagCardinality(handling) + BagCardinality(returned)

\* Map.put(s, f()): the entry is replaced on every call.
ComputeIfAbsent_Put(map, s, k) ==
    [map |-> [map EXCEPT ![s] = k], value |-> k, ran |-> TRUE]

\* key = f(); Map.putIfAbsent(s, key); return key: a caller that finds an entry
\* still hands out the key it generated itself.
ComputeIfAbsent_ReturnOwn(map, s, k) ==
    IF map[s] = NoKey
    THEN [map |-> [map EXCEPT ![s] = k], value |-> k, ran |-> TRUE]
    ELSE [map |-> map, value |-> k, ran |-> FALSE]

\* Map.computeIfAbsent(s, f) where f yields k: the map afterwards, the value
\* returned, and whether f ran.
ComputeIfAbsent(map, s, k) ==
    IF map[s] = NoKey
    THEN [map |-> [map EXCEPT ![s] = k], value |-> k, ran |-> TRUE]
    ELSE [map |-> map, value |-> map[s], ran |-> FALSE]

\* Map.remove(s): the value is returned and the entry dropped.
MapGet_Remove(map, s) == [map |-> [map EXCEPT ![s] = NoKey], value |-> map[s]]

\* A lookup under the wrong id: never finds the entry.
MapGet_Miss(map, s) == [map |-> map, value |-> NoKey]

\* Map.get(s): the map afterwards and the value returned.
MapGet(map, s) == [map |-> map, value |-> map[s]]

\* "{\"sessionId\":\"" + sessionId + "\",\"aesKeyB64\":\"" + aesB64 + "\"}"
KeyResponse(sid, key) ==
    [status |-> 200, sessionId |-> sid, aesKeyB64 |-> EncodeToString(key)]

ErrorResponse(status, error) == [status |-> status, error |-> error]

\* sendJson(exchange, 200, "")
EmptyResponse == [status |-> 200, empty |-> TRUE]

IsKeyResponse(resp) == "aesKeyB64" \in DOMAIN resp

\* The checks both handlers run before touching the map; pass = TRUE when the
\* handler goes on to the map with session id sid.
Precheck(method, body) ==
    LET f == ExtractField(body, SessionIdKey)
    IN  IF EqualsIgnoreCase("OPTIONS", method)
        THEN [pass |-> FALSE, resp |-> EmptyResponse]
        ELSE IF ~EqualsIgnoreCase("POST", method)
        THEN [pass |-> FALSE, resp |-> ErrorResponse(405, "Method not allowed")]
        ELSE IF ~f.found \/ f.value = <<>>
        THEN [pass |-> FALSE, resp |-> ErrorResponse(400, "Missing sessionId")]
        ELSE [pass |-> TRUE, sid |-> f.value]


(* ------------------------------- relay --------------------------------- *)

Conns == 1..NumConns

\* ws.sessionId / ws.role before any hello, and after `msg.sessionId || null`
\* of an absent or empty field: the relay only ever tests them for truth.
NoSession == <<>>
NoRole == ""
\* No hello has given the socket a session id.
NoClient == ""

NotConnected == [readyState |-> "NONE", sessionId |-> NoSession, role |-> NoRole]

Closed == [readyState |-> "CLOSED", sessionId |-> NoSession, role |-> NoRole]

Nothing == [none |-> TRUE]
NothingSent == [c \in Conns |-> Nothing]

\* The control messages and the encrypted frame of the client.
HelloMsg(role, sid, cid) ==
    [type |-> "hello", role |-> role, sessionId |-> sid, clientId |-> cid,
     userName |-> "u"]
MetricMsg == [type |-> "metric", ts |-> 1]
ChatMsg == [type |-> "chat", text |-> "hi", clientId |-> "c1", ts |-> 1]
RotateMsg == [type |-> "rotate", reason |-> "manual"]
\* The relay reads no field of a frame; it carries kind and counter here.
FrameMsg(counter) == [kind |-> "chat", counter |-> counter]
PongMsg == [type |-> "pong"]

\* JSON.stringify(obj) as message text; other text is not JSON.
Stringify(obj) == [json |-> TRUE, obj |-> obj]
Garbage == [json |-> FALSE, raw |-> "x"]
EmptyText == [json |-> FALSE, raw |-> ""]

\* Hellos with either role, for each session and with an empty session id.
HelloMsgs ==
    {HelloMsg(r, s, "c1") : r \in {"host", "viewer"}, s \in SessionIds \cup {NoSession}}

Texts ==
    {Stringify(o) : o \in HelloMsgs \cup {MetricMsg, ChatMsg, RotateMsg, FrameMsg(1)}}
    \cup {Garbage, EmptyText}

\* What arrives in ws.on("message", (data, isBinary)): the client sends text
\* messages; frames and foreign data may come as binary messages too.
WireData ==
    [isBinary : {FALSE}, text : Texts]
    \cup [isBinary : {TRUE}, text : {Stringify(FrameMsg(1)), Garbage}]

\* msg.type of JSON.parse(text); "" when the object has no such field.
TypeOf(obj) == IF "type" \in DOMAIN obj THEN obj.type ELSE ""

\* The handler without its metric branch: a metric message falls through to
\* the raw forward loop.
Dispatch_NoMetric(text) ==
    IF ~text.json THEN "forward"
    ELSE IF TypeOf(text.obj) \in {"hello", "chat"} THEN TypeOf(text.obj)
    ELSE "forward"

\* The branch the handler takes: `if (text)`, JSON.parse in try/catch, msg.type.
Dispatch(text) ==
    IF ~text.json THEN "forward"
    ELSE IF TypeOf(text.obj) \in {"metric", "hello", "chat"} THEN TypeOf(text.obj)
    ELSE "forward"

\* ws.sessionId && client.sessionId && client.sessionId !== ws.sessionId
OtherSession(ws, client) ==
    /\ clients[ws].sessionId # NoSession
    /\ clients[client].sessionId # NoSession
    /\ clients[client].sessionId # clients[ws].sessionId

\* The chat loop skipping the sender as the forward loop does.
ChatTargets_NotSender(ws) ==
    {c \in Conns : c # ws /\ clients[c].readyState = "OPEN" /\ ~OtherSession(ws, c)}

\* The sockets the chat loop sends to.
ChatTargets(ws) ==
    {c \in Conns : clients[c].readyState = "OPEN" /\ ~OtherSession(ws, c)}

\* The forward loop without its readyState test.
ForwardTargets_NoReadyState(ws) ==
    {c \in Conns : c # ws /\ clients[c].readyState # "NONE" /\ ~OtherSession(ws, c)}

\* The sockets the raw forward loop sends to.
ForwardTargets(ws) ==
    {c \in Conns : c # ws /\ clients[c].readyState = "OPEN" /\ ~OtherSession(ws, c)}

\* The forward loop sending the decoded text as the chat loop does: a binary
\* message goes out as a text message.
ForwardSend_Text(data) == [isBinary |-> FALSE, text |-> data.text]

\* client.send(data, { binary: isBinary })
ForwardSend(data) == [isBinary |-> data.isBinary, text |-> data.text]

\* The hello branch keeping session id and role in variables shared by all
\* connections instead of on the socket.
StoreHello_Shared(ws, msg) ==
    [c \in Conns |->
        IF clients[c].readyState = "OPEN"
        THEN [clients[c] EXCEPT !.sessionId = msg.sessionId, !.role = msg.role]
        ELSE clients[c]]

\* ws.sessionId = msg.sessionId || null; ws.role = msg.role || null
StoreHello(ws, msg) ==
    [clients EXCEPT ![ws].sessionId = msg.sessionId, ![ws].role = msg.role]

\* wss.on("connection")
Connection(c) ==
    /\ clients[c].readyState = "NONE"
    /\ clients' = [clients EXCEPT ![c].readyState = "OPEN"]
    /\ sent' = NothingSent
    /\ UNCHANGED <<rotateHandled, clientIds, keyVars>>

\* ws.on("message")
OnMessage(ws, data) ==
    /\ clients[ws].readyState = "OPEN"
    /\ LET branch == Dispatch(data.text)
           msg == data.text.obj
       IN  /\ clients' =
                IF branch = "hello" THEN StoreHello(ws, msg) ELSE clients
           /\ clientIds' =
                IF branch = "hello"
                THEN [clientIds EXCEPT ![ws] =
                        IF msg.sessionId = NoSession THEN NoClient ELSE msg.clientId]
                ELSE clientIds
           /\ sent' =
                CASE branch = "metric" ->
                        [NothingSent EXCEPT ![ws] =
                            [isBinary |-> FALSE, text |-> Stringify(PongMsg)]]
                  [] branch = "hello" -> NothingSent
                  [] branch = "chat" ->
                        [c \in Conns |->
                            IF c \in ChatTargets(ws)
                            THEN [isBinary |-> FALSE, text |-> data.text]
                            ELSE Nothing]
                  [] OTHER ->
                        [c \in Conns |->
                            IF c \in ForwardTargets(ws) THEN ForwardSend(data) ELSE Nothing]
           /\ rotateHandled' =
                IF /\ data.text = Stringify(RotateMsg)
                   /\ clients[ws].role = "host"
                   /\ clients[ws].sessionId \in SessionIds
                   /\ sessionKeys[clients[ws].sessionId] # NoKey
                THEN rotateHandled \cup {clients[ws].sessionId}
                ELSE rotateHandled
    /\ UNCHANGED keyVars

\* The peer starts closing: the socket stays in wss.clients, no longer OPEN.
Closing(c) ==
    /\ clients[c].readyState = "OPEN"
    /\ clients' = [clients EXCEPT ![c].readyState = "CLOSING"]
    /\ sent' = NothingSent
    /\ UNCHANGED <<rotateHandled, clientIds, keyVars>>

\* ws.on("close"): the socket is closed and leaves wss.clients; the relay
\* reads none of its fields again.
OnClose(c) ==
    /\ clients[c].readyState \in {"OPEN", "CLOSING"}
    /\ clients' = [clients EXCEPT ![c] = Closed]
    /\ clientIds' = [clientIds EXCEPT ![c] = NoClient]
    /\ sent' = NothingSent
    /\ UNCHANGED <<rotateHandled, keyVars>>

(* ------------------------------- client -------------------------------- *)

\* The WebSocket objects one mounted component creates, in creation order.
Sockets == 1..MaxSockets

\* wsRef.current before the first connectWs.
NoSocket == 0

\* The characters of a frame kind.
Chars(kind) ==
    IF kind = "chat" THEN <<"c", "h", "a", "t">> ELSE <<"m", "e", "d", "i", "a">>

DigitChars == <<"0", "1", "2", "3", "4", "5", "6", "7", "8", "9">>

\* String(counter) of a template literal: the decimal digits of the number.
RECURSIVE ToDecimal(_)
ToDecimal(n) ==
    IF n < 10 THEN <<DigitChars[n + 1]>>
    ELSE ToDecimal(n \div 10) \o <<DigitChars[(n % 10) + 1]>>

\* The code unit of a character of a kind, of ":" or of a digit.
CharCodeAt(ch) ==
    CASE ch = "a" -> 97 [] ch = "c" -> 99 [] ch = "d" -> 100 [] ch = "e" -> 101
      [] ch = "h" -> 104 [] ch = "i" -> 105 [] ch = "m" -> 109 [] ch = "t" -> 116
      [] ch = ":" -> 58
      [] OTHER -> 48 + (CHOOSE d \in 0..9 : DigitChars[d + 1] = ch)

\* new TextEncoder().encode(str) of an ASCII string: one byte per character.
Encode(str) == [i \in 1..Len(str) |-> CharCodeAt(str[i])]

\* bytesToB64(buf): btoa of the bytes.
BytesToB64(buf) == Base64Encode(buf)

\* The value of a Base64 character.
Base64Value(ch) == CHOOSE n \in 0..63 : Base64Alphabet[n + 1] = ch

\* b64ToBytes(b64): atob, 4 characters to 3 bytes, fewer before "=" padding.
RECURSIVE B64ToBytes(_)
B64ToBytes(b64) ==
    IF Len(b64) = 0 THEN <<>>
    ELSE LET v1 == Base64Value(b64[1])
             v2 == Base64Value(b64[2])
             rest == B64ToBytes(SubSeq(b64, 5, Len(b64)))
         IN  IF b64[3] = "=" THEN <<v1 * 4 + v2 \div 16>>
             ELSE LET v3 == Base64Value(b64[3])
                  IN  IF b64[4] = "="
                      THEN <<v1 * 4 + v2 \div 16, (v2 % 16) * 16 + v3 \div 4>>
                      ELSE <<v1 * 4 + v2 \div 16, (v2 % 16) * 16 + v3 \div 4,
                             (v3 % 4) * 64 + Base64Value(b64[4])>> \o rest

\* The additional data of a chat frame with the counter written into it.
Aad_NoCounter(counter) == Encode(Chars("chat") \o <<":">>)

\* const aad = new TextEncoder().encode(`chat:${counter}`)
Aad(counter) == Encode(Chars("chat") \o <<":">> \o ToDecimal(counter))

\* The key the component generates or loads: the session's key.
SessionKey == GenerateKey(1)

\* crypto.getRandomValues(new Uint8Array(12)): the nonce of a frame.
Iv(counter) == [j \in 1..IvBytes |-> (counter * 89 + j * 37) % 256]

\* What the user types into the chat field.
ChatText == <<"h", "i">>

\* The plaintext bytes handed on as they are: sealed is FALSE, anyone reads
\* them.
AesGcmEncrypt_Null(key, plaintext, iv, aad) ==
    [sealed |-> FALSE, key |-> key, plaintext |-> plaintext, iv |-> iv, aad |-> aad]

\* aesGcmEncrypt: the ciphertext, sealed under the key: its plaintext is read
\* only with that key together with the same nonce and additional data.
AesGcmEncrypt(key, plaintext, iv, aad) ==
    [sealed |-> TRUE, key |-> key, plaintext |-> plaintext, iv |-> iv, aad |-> aad]

\* aesGcmDecrypt: the plaintext, or a failure (the promise rejects) when the
\* data is no ciphertext of this key, nonce and additional data.
AesGcmDecrypt(key, ct, iv, aad) ==
    IF ct.sealed /\ ct.key = key /\ ct.iv = iv /\ ct.aad = aad
    THEN [ok |-> TRUE, plaintext |-> ct.plaintext]
    ELSE [ok |-> FALSE]

\* The frame sendSecureChat builds once the ciphertext is there; the Base64
\* text of the ciphertext is carried as the ciphertext under a b64 tag.
EncryptedFrame(counter, aad, iv, ct) ==
    [kind |-> "chat", ivB64 |-> BytesToB64(iv), aadB64 |-> BytesToB64(aad),
     payloadB64 |-> [b64 |-> ct], counter |-> counter]

\* The component after its first render for a user logged in as viewer:
\* useState and useRef initial values, with the sockets it will create, the
\* retry timers it has set and the sendSecureChat calls waiting for their
\* ciphertext. Per socket: the sessionId (closure) and aesKey (keyAt) its
\* handlers were created with, and the type of the first message sent on it.
\* pings and rotated are the sockets a metric or a rotate was sent on, inbox
\* the message events not yet handled, log the kinds of lines pushLog added.
Mounted ==
    [sessionId |-> NoSession, role |-> "viewer", clientId |-> "c1",
     connected |-> FALSE, frameCounter |-> 0, aesKey |-> FALSE, wsRef |-> NoSocket,
     readyState |-> [k \in Sockets |-> "NONE"],
     closure |-> [k \in Sockets |-> NoSession],
     retryOf |-> [k \in Sockets |-> NoSocket],
     hello |-> [k \in Sockets |-> Nothing],
     timers |-> {},
     encrypting |-> {},
     frames |-> <<>>,
     user |-> "viewer", wsUrl |-> "ws://localhost:8080/stream", chatInput |-> <<>>,
     keyAt |-> [k \in Sockets |-> FALSE],
     first |-> [k \in Sockets |-> ""],
     pings |-> {},
     rotated |-> {},
     inbox |-> <<>>,
     log |-> {}]

\* The next WebSocket object to be created.
NextSocket(a) == Cardinality({k \in Sockets : a.readyState[k] # "NONE"}) + 1

\* wsRef.current is set, whatever its readyState.
AlreadyOpen_AnySocket(a) == a.wsRef # NoSocket

\* wsRef.current && wsRef.current.readyState === WebSocket.OPEN
AlreadyOpen(a) == a.wsRef # NoSocket /\ a.readyState[a.wsRef] = "OPEN"

\* connectWs returns without creating a socket.
Returns(a, sid) == sid = NoSession \/ AlreadyOpen(a)

\* connectWs with the sessionId of the render that made it; `from` is the
\* socket whose onclose timer called it, NoSocket for the button.
ConnectWs(a, sid, from) ==
    IF Returns(a, sid) THEN a
    ELSE [a EXCEPT !.readyState[NextSocket(a)] = "CONNECTING",
                   !.closure[NextSocket(a)] = sid,
                   !.retryOf[NextSocket(a)] = from,
                   !.keyAt[NextSocket(a)] =
                        IF from = NoSocket THEN a.aesKey ELSE a.keyAt[from],
                   !.wsRef = NextSocket(a)]

\* onChange of the Session ID field.
SetSessionId(sid) ==
    /\ app' = [app EXCEPT !.sessionId = sid]
    /\ UNCHANGED <<keyVars, relayVars>>

\* handleGenKey / handleLoadKey: the component holds an AES key.
HandleGenKey ==
    /\ ~app.aesKey
    /\ app' = [app EXCEPT !.aesKey = TRUE]
    /\ UNCHANGED <<keyVars, relayVars>>

\* A click on the Connect button, enabled while `connected` is false.
ClickConnect ==
    /\ ~app.connected
    /\ Returns(app, app.sessionId) \/ NextSocket(app) <= MaxSockets
    /\ app' = ConnectWs(app, app.sessionId, NoSocket)
    /\ UNCHANGED <<keyVars, relayVars>>

\* ws.onopen: the socket opened and the client says hello on it.
WsOnOpen(k) ==
    /\ app.readyState[k] = "CONNECTING"
    /\ app' = [app EXCEPT !.readyState[k] = "OPEN",
                          !.connected = TRUE,
                          !.first[k] = IF @ = "" THEN "hello" ELSE @,
                          !.hello[k] = HelloMsg(IF app.role = "host" THEN "host" ELSE "viewer",
                                                app.closure[k], app.clientId)]
    /\ UNCHANGED <<keyVars, relayVars>>

\* ws.onclose, of an open socket or of an attempt that failed: the retry
\* timer is set.
WsOnClose(k) ==
    /\ app.readyState[k] \in {"CONNECTING", "OPEN"}
    /\ app' = [app EXCEPT !.readyState[k] = "CLOSED",
                          !.connected = FALSE,
                          !.timers = @ \cup {k}]
    /\ UNCHANGED <<keyVars, relayVars>>

\* The timer of socket k fires after WS_RETRY_MS and calls the connectWs that
\* created k.
Retry(k) ==
    /\ k \in app.timers
    /\ Returns(app, app.closure[k]) \/ NextSocket(app) <= MaxSockets
    /\ app' = ConnectWs([app EXCEPT !.timers = @ \ {k}], app.closure[k], k)
    /\ UNCHANGED <<keyVars, relayVars>>

\* sendSecureChat up to its await: the counter is taken and stored, and the
\* encryption is started.
SendSecureChat ==
    /\ app.aesKey
    /\ AlreadyOpen(app)
    /\ app.frameCounter < MaxCounter
    /\ LET counter == app.frameCounter + 1
       IN  app' = [app EXCEPT !.frameCounter = counter,
                              !.encrypting = @ \cup {[counter |-> counter,
                                                      iv |-> Iv(counter),
                                                      aad |-> Aad(counter),
                                                      pt |-> Encode(app.chatInput)]}]
    /\ UNCHANGED <<keyVars, relayVars>>

\* sendSecureChat after its await: wsRef.current.send(JSON.stringify(frame))
\* puts the frame on the wire if that socket is open; send on a closed socket
\* discards it and send on a connecting socket throws.
Encrypted(p) ==
    /\ p \in app.encrypting
    /\ app' = [app EXCEPT
                !.encrypting = @ \ {p},
                !.frames = IF AlreadyOpen(app)
                           THEN Append(@, [socket |-> app.wsRef,
                                           frame |-> EncryptedFrame(p.counter, p.aad, p.iv,
                                                AesGcmEncrypt(SessionKey, p.pt, p.iv, p.aad))])
                           ELSE @,
                !.chatInput = IF app.readyState[app.wsRef] = "CONNECTING" THEN @ ELSE <<>>]
    /\ UNCHANGED <<keyVars, relayVars>>

\* onLogout and onLogin: the component is mounted anew for a user of the given
\* role, before it has connected.
Login(user) ==
    /\ app.wsRef = NoSocket
    /\ app' = [Mounted EXCEPT !.user = user,
                              !.role = IF user = "streamer" THEN "host" ELSE "viewer"]
    /\ UNCHANGED <<keyVars, relayVars>>

\* The host controls are on all the time.
IsHost_Always(a) == TRUE

\* const isHost = role === "host"
IsHost(a) == a.role = "host"

\* onChange of the role select, rendered for a user logged in as streamer.
SetRole(role) ==
    /\ app.user = "streamer"
    /\ app' = [app EXCEPT !.role = role]
    /\ UNCHANGED <<keyVars, relayVars>>

\* onChange of the WebSocket URL field, disabled unless isHost.
SetWsUrl(url) ==
    /\ IsHost(app)
    /\ app' = [app EXCEPT !.wsUrl = url]
    /\ UNCHANGED <<keyVars, relayVars>>

\* onChange of the chat field.
SetChatInput(text) ==
    /\ app' = [app EXCEPT !.chatInput = text]
    /\ UNCHANGED <<keyVars, relayVars>>

\* The first message on a socket is the one sent while none was sent before.
FirstOn(a, k, type) == [a.first EXCEPT ![k] = IF @ = "" THEN type ELSE @]

\* handleRotate, behind the Rotate Key button that is rendered when isHost.
HandleRotate ==
    /\ IsHost(app)
    /\ AlreadyOpen(app)
    /\ app' = [app EXCEPT !.rotated = @ \cup {app.wsRef},
                          !.first = FirstOn(app, app.wsRef, "rotate")]
    /\ UNCHANGED <<keyVars, relayVars>>

\* The latency timer sending on whatever socket wsRef holds.
PingReady_NoReadyState(a) == a.wsRef # NoSocket

\* if (!ws || ws.readyState !== WebSocket.OPEN) return
PingReady(a) == a.wsRef # NoSocket /\ a.readyState[a.wsRef] = "OPEN"

\* The 3000 ms interval of useLatencyMeter fires.
LatencyPing ==
    /\ PingReady(app)
    /\ app' = [app EXCEPT !.pings = @ \cup {app.wsRef},
                          !.first = FirstOn(app, app.wsRef, "metric")]
    /\ UNCHANGED <<keyVars, relayVars>>

\* A message arrives on an open socket: its message event is queued, noted
\* with whether the component held a key at that moment.
Arrives(a, k, data) ==
    IF a.readyState[k] = "OPEN" /\ Len(a.inbox) < MaxInbox
    THEN [a EXCEPT !.inbox = Append(@, [socket |-> k, data |-> data,
                                        hadKey |-> a.aesKey])]
    ELSE a

\* What ws.onmessage of socket k adds to the log for one message event. A
\* string is parsed as a control message and never decrypted; binary data is
\* decoded, parsed and decrypted with the aesKey the handler was created with.
LogLine(a, k, data) ==
    IF ~data.text.json THEN {[kind |-> "error"]}
    ELSE IF ~data.isBinary
    THEN IF TypeOf(data.text.obj) = "chat"
         THEN {[kind |-> "chat", text |-> data.text.obj.text]}
         ELSE {}
    ELSE IF ~a.keyAt[k] THEN {[kind |-> "nokey"]}
    ELSE LET f == data.text.obj
         IN  IF {"ivB64", "aadB64", "payloadB64"} \subseteq DOMAIN f
             THEN LET pt == AesGcmDecrypt(SessionKey, f.payloadB64.b64,
                                          B64ToBytes(f.ivB64), B64ToBytes(f.aadB64))
                  IN  IF ~pt.ok THEN {[kind |-> "error"]}
                      ELSE IF f.kind = "chat"
                      THEN {[kind |-> "secure", text |-> pt.plaintext]}
                      ELSE {[kind |-> "media"]}
             ELSE {[kind |-> "error"]}

\* A message from the relay arrives on open socket k.
Receive(k, data) ==
    /\ app.readyState[k] = "OPEN"
    /\ Len(app.inbox) < MaxInbox
    /\ app' = Arrives(app, k, data)
    /\ UNCHANGED <<keyVars, relayVars>>

\* ws.onmessage for the oldest queued message event.
WsOnMessage ==
    /\ app.inbox # <<>>
    /\ LET ev == Head(app.inbox)
       IN  app' = [app EXCEPT !.inbox = Tail(@),
                              !.log = @ \cup LogLine(app, ev.socket, ev.data)]
    /\ UNCHANGED <<keyVars, relayVars>>

\* Precheck of every request the model draws, computed once.
Prechecked == [m \in Methods |-> [b \in Bodies |-> Precheck(m, b)]]

Init ==
    /\ sessionKeys = [s \in SessionIds |-> NoKey]
    /\ generated = [s \in SessionIds |-> 0]
    /\ handling = EmptyBag
    /\ returned = EmptyBag
    /\ clients = [c \in Conns |-> NotConnected]
    /\ sent = NothingSent
    /\ rotateHandled = {}
    /\ clientIds = [c \in Conns |-> NoClient]
    /\ history = <<>>
    /\ rotations = {}
    /\ bufferedAmount = [c \in Conns |-> 0]
    /\ app = Mounted

\* The create handler reading the body and storing the key before it looks
\* at the request method.
HandleCreateSession_StoreFirst(method, body, k) ==
    /\ Accepted < MaxReq
    /\ UNCHANGED <<returned, relayVars, app>>
    /\ LET pre == Prechecked[method][body]
           post == Prechecked["POST"][body]
           c == IF post.pass THEN ComputeIfAbsent(sessionKeys, post.sid, k)
                ELSE [map |-> sessionKeys, ran |-> FALSE, value |-> NoKey]
       IN  /\ sessionKeys' = c.map
           /\ generated' = IF c.ran THEN [generated EXCEPT ![post.sid] = @ + 1]
                           ELSE generated
           /\ handling' = handling (+) SetToBag(
                    {Exchange("session", IF pre.pass THEN KeyResponse(pre.sid, c.value)
                                         ELSE pre.resp)})

\* POST /api/session: the handler up to the response it has built.
HandleCreateSession(method, body, k) ==
    /\ Accepted < MaxReq
    /\ UNCHANGED <<returned, relayVars, app>>
    /\ LET pre == Prechecked[method][body]
       IN  IF ~pre.pass
           THEN /\ handling' = handling (+) SetToBag({Exchange("session", pre.resp)})
                /\ UNCHANGED <<sessionKeys, generated>>
           ELSE LET c == ComputeIfAbsent(sessionKeys, pre.sid, k)
                IN  /\ sessionKeys' = c.map
                    /\ generated' = [generated EXCEPT ![pre.sid] =
                                        IF c.ran THEN @ + 1 ELSE @]
                    /\ handling' = handling (+) SetToBag(
                            {Exchange("session", KeyResponse(pre.sid, c.value))})

\* The join handler written as a copy of the create handler: computeIfAbsent
\* instead of get.
HandleJoinSession_Create(method, body) ==
    /\ Accepted < MaxReq
    /\ UNCHANGED <<returned, relayVars, app>>
    /\ LET pre == Prechecked[method][body]
       IN  IF ~pre.pass
           THEN /\ handling' = handling (+) SetToBag({Exchange("join", pre.resp)})
                /\ UNCHANGED <<sessionKeys, generated>>
           ELSE \E k \in KeySpace :
                LET c == ComputeIfAbsent(sessionKeys, pre.sid, k)
                IN  /\ sessionKeys' = c.map
                    /\ generated' = [generated EXCEPT ![pre.sid] =
                                        IF c.ran THEN @ + 1 ELSE @]
                    /\ handling' = handling (+) SetToBag(
                            {Exchange("join", KeyResponse(pre.sid, c.value))})

\* POST /api/join: the handler up to the response it has built.
HandleJoinSession(method, body) ==
    /\ Accepted < MaxReq
    /\ UNCHANGED <<returned, relayVars, app>>
    /\ LET pre == Prechecked[method][body]
       IN  IF ~pre.pass
           THEN /\ handling' = handling (+) SetToBag({Exchange("join", pre.resp)})
                /\ UNCHANGED <<sessionKeys, generated>>
           ELSE LET g == MapGet(sessionKeys, pre.sid)
                IN  /\ sessionKeys' = g.map
                    /\ UNCHANGED generated
                    /\ handling' = handling (+) SetToBag(
                            {Exchange("join",
                                      IF g.value = NoKey
                                      THEN ErrorResponse(404, "Unknown sessionId")
                                      ELSE KeyResponse(pre.sid, g.value))})

\* sendJson: the response is written to the exchange and reaches the caller.
SendJson(x) ==
    /\ BagIn(x, handling)
    /\ handling' = handling (-) SetToBag({x})
    /\ returned' = returned (+) SetToBag({x})
    /\ UNCHANGED <<sessionKeys, generated, relayVars, app>>

NextKeyServer ==
    \/ \E m \in Methods, b \in Bodies, k \in KeySpace : HandleCreateSession(m, b, k)
    \/ \E m \in Methods, b \in Bodies : HandleJoinSession(m, b)
    \/ \E x \in BagToSet(handling) : SendJson(x)

SpecKeyServer == Init /\ [][NextKeyServer]_vars

\* The key server with its handlers running to completion: a response that
\* has been built is written out. Requests may stop arriving at any time.
SpecKeyServerFair ==
    SpecKeyServer /\ WF_vars(\E x \in BagToSet(handling) : SendJson(x))

NextRelay ==
    \/ \E c \in Conns : Connection(c) /\ UNCHANGED observed
    \/ \E c \in Conns, d \in WireData : OnMessage(c, d) /\ UNCHANGED observed
    \/ \E c \in Conns : Closing(c) /\ UNCHANGED observed
    \/ \E c \in Conns : OnClose(c) /\ UNCHANGED observed

SpecRelay == Init /\ [][NextRelay]_vars

\* The session of the end-to-end scenario.
DemoSession == <<"a">>

\* Key server and relay together, for one session: clients post well-formed
\* create-or-get and join requests, connect to the relay, say hello and ask
\* for rotation.
NextE2E ==
    \/ \E k \in KeySpace : HandleCreateSession("POST", SessionBody(DemoSession), k)
    \/ HandleJoinSession("POST", SessionBody(DemoSession))
    \/ \E x \in BagToSet(handling) : SendJson(x)
    \/ \E c \in Conns : Connection(c) /\ UNCHANGED observed
    \/ \E c \in Conns, role \in {"host", "viewer"} :
            /\ OnMessage(c, [isBinary |-> FALSE,
                             text |-> Stringify(HelloMsg(role, DemoSession, "c1"))])
            /\ UNCHANGED observed
    \/ \E c \in Conns :
            /\ OnMessage(c, [isBinary |-> FALSE, text |-> Stringify(RotateMsg)])
            /\ UNCHANGED observed

SpecE2E == Init /\ [][NextE2E]_vars

(* ----------------------------- frame traffic --------------------------- *)

\* uuidv4() of two clients.
ClientIds == {"c1", "c2"}

Counters == 1..MaxCounter

\* wsRef.current.send(JSON.stringify(frame)): a frame goes out as a text message.
FrameData(counter) == [isBinary |-> FALSE, text |-> Stringify(FrameMsg(counter))]

\* The sockets a handler sent something to.
Receivers(s) == {p \in Conns : s[p] # Nothing}

\* ws.on("message") for a frame, with its fan-out appended to the history:
\* the socket it came from, that socket's binding, the frame's kind and
\* counter, and the sockets it was sent to.
OnFrame(ws, counter) ==
    /\ Len(history) < MaxFrames
    /\ OnMessage(ws, FrameData(counter))
    /\ history' = Append(history,
            [from |-> ws,
             sessionId |-> clients[ws].sessionId,
             clientId |-> clientIds[ws],
             kind |-> FrameMsg(counter).kind,
             counter |-> counter,
             to |-> Receivers(sent')])
    /\ UNCHANGED <<rotations, bufferedAmount, app>>

\* Clients connect, say hello for the demo session under their client id,
\* send frames and go away.
NextFrames ==
    \/ \E c \in Conns : Connection(c) /\ UNCHANGED observed
    \/ \E c \in Conns, cid \in ClientIds :
            /\ OnMessage(c, [isBinary |-> FALSE,
                             text |-> Stringify(HelloMsg("viewer", DemoSession, cid))])
            /\ UNCHANGED observed
    \/ \E c \in Conns, n \in Counters : OnFrame(c, n)
    \/ \E c \in Conns : OnClose(c) /\ UNCHANGED observed

SpecFrames == Init /\ [][NextFrames]_vars

\* A text message carrying JSON.stringify(obj).
TextData(obj) == [isBinary |-> FALSE, text |-> Stringify(obj)]

\* The traffic of the client as written: hellos for a session, latency
\* metrics, plain chat and encrypted frames, all as text messages.
ClientData ==
    {TextData(HelloMsg(r, s, "c1")) : r \in {"host", "viewer"}, s \in SessionIds}
    \cup {TextData(MetricMsg), TextData(ChatMsg), FrameData(1)}

\* Session members come and go: clients connect, send what the client sends,
\* and close.
NextMembers ==
    \/ \E c \in Conns : Connection(c) /\ UNCHANGED observed
    \/ \E c \in Conns, d \in ClientData : OnMessage(c, d) /\ UNCHANGED observed
    \/ \E c \in Conns : Closing(c) /\ UNCHANGED observed
    \/ \E c \in Conns : OnClose(c) /\ UNCHANGED observed

SpecMembers == Init /\ [][NextMembers]_vars

\* Input that is malformed (not JSON, empty) or may come out of state (a
\* metric or frame before any hello, a second hello), next to the hellos that
\* bind a socket.
FaultData ==
    {d \in WireData : ~d.text.json}
    \cup {TextData(HelloMsg("viewer", s, "c1")) : s \in SessionIds}
    \cup {TextData(MetricMsg), FrameData(1)}

\* The relay under malformed and out-of-state input.
NextFaults ==
    \/ \E c \in Conns : Connection(c) /\ UNCHANGED observed
    \/ \E c \in Conns, d \in FaultData : OnMessage(c, d) /\ UNCHANGED observed
    \/ \E c \in Conns : Closing(c) /\ UNCHANGED observed
    \/ \E c \in Conns : OnClose(c) /\ UNCHANGED observed

SpecFaults == Init /\ [][NextFaults]_vars

\* ws.on("message") for a rotate message, observed: for a socket bound to a
\* session, the session, whether the directory held a key for it, and whether
\* the key server had accepted no exchange yet.
OnRotate(ws) ==
    /\ OnMessage(ws, TextData(RotateMsg))
    /\ rotations' =
            IF clients[ws].sessionId \in SessionIds
            THEN rotations \cup
                    {[sessionId |-> clients[ws].sessionId,
                      hadKey |-> sessionKeys[clients[ws].sessionId] # NoKey,
                      first |-> Accepted = 0]}
            ELSE rotations
    /\ UNCHANGED <<history, bufferedAmount, app>>

\* The host's connection: the first the relay accepts.
HostConn == CHOOSE c \in Conns : \A d \in Conns : c <= d

\* The host connects, says hello and asks for rotation while clients create
\* and join the demo session at the key server.
NextRotate ==
    \/ \E k \in KeySpace : HandleCreateSession("POST", SessionBody(DemoSession), k)
    \/ HandleJoinSession("POST", SessionBody(DemoSession))
    \/ \E x \in BagToSet(handling) : SendJson(x)
    \/ Connection(HostConn) /\ UNCHANGED observed
    \/ /\ OnMessage(HostConn, TextData(HelloMsg("host", DemoSession, "c1")))
       /\ UNCHANGED observed
    \/ OnRotate(HostConn)

SpecRotate == Init /\ [][NextRotate]_vars

\* ws.on("message") with the outbound buffers observed: client.send queues
\* the data on the receiving socket whether or not earlier data was written.
Relay(ws, data) ==
    /\ \A c \in Conns : bufferedAmount[c] <= QueueLimit
    /\ OnMessage(ws, data)
    /\ bufferedAmount' =
            [c \in Conns |->
                IF sent'[c] # Nothing THEN bufferedAmount[c] + 1 ELSE bufferedAmount[c]]
    /\ UNCHANGED <<history, rotations, app>>

\* The peer reads: the oldest message queued on its socket is written out.
Drain(c) ==
    /\ clients[c].readyState = "OPEN"
    /\ bufferedAmount[c] > 0
    /\ bufferedAmount' = [bufferedAmount EXCEPT ![c] = @ - 1]
    /\ sent' = NothingSent
    /\ UNCHANGED <<clients, rotateHandled, clientIds, keyVars, history, rotations, app>>

\* ws.on("close") with the socket's buffer discarded.
OnCloseBuffered(c) ==
    /\ OnClose(c)
    /\ bufferedAmount' = [bufferedAmount EXCEPT ![c] = 0]
    /\ UNCHANGED <<history, rotations, app>>

\* Members of the demo session exchange frames; each peer reads at its own
\* pace or not at all.
NextBackpressure ==
    \/ \E c \in Conns : Connection(c) /\ UNCHANGED observed
    \/ \E c \in Conns :
            /\ OnMessage(c, TextData(HelloMsg("viewer", DemoSession, "c1")))
            /\ UNCHANGED observed
    \/ \E c \in Conns : Relay(c, FrameData(1))
    \/ \E c \in Conns : Drain(c)
    \/ \E c \in Conns : OnCloseBuffered(c)

SpecBackpressure == Init /\ [][NextBackpressure]_vars

\* One client and its connection: the session field, the button, the socket's
\* events and the retry timer.
NextReconnect ==
    \/ \E sid \in SessionIds \cup {NoSession} : SetSessionId(sid)
    \/ ClickConnect
    \/ \E k \in Sockets : WsOnOpen(k)
    \/ \E k \in Sockets : WsOnClose(k)
    \/ \E k \in Sockets : Retry(k)

\* setTimeout callbacks run: a timer that is set fires.
SpecReconnect ==
    Init /\ [][NextReconnect]_vars /\ WF_vars(\E k \in Sockets : Retry(k))

\* One client in the demo session with its key, its connection and its chat.
NextClient ==
    \/ SetSessionId(DemoSession)
    \/ HandleGenKey
    \/ ClickConnect
    \/ \E k \in Sockets : WsOnOpen(k)
    \/ \E k \in Sockets : WsOnClose(k)
    \/ \E k \in Sockets : Retry(k)
    \/ SendSecureChat
    \/ \E p \in app.encrypting : Encrypted(p)

SpecClient == Init /\ [][NextClient]_vars

\* The same client when the user reconnects by hand: the button is clicked
\* before a retry timer fires.
NextChat ==
    \/ SetSessionId(DemoSession)
    \/ HandleGenKey
    \/ ClickConnect
    \/ \E k \in Sockets : WsOnOpen(k)
    \/ \E k \in Sockets : app.readyState[k] = "OPEN" /\ WsOnClose(k)
    \/ SendSecureChat
    \/ \E p \in app.encrypting : Encrypted(p)

SpecChat == Init /\ [][NextChat]_vars

\* Frames and other opaque data, as text and as binary messages.
OpaqueData ==
    {d \in WireData : Dispatch(d.text) = "forward"}

\* Members of the demo session and connections without a hello exchange
\* opaque data.
NextOpaque ==
    \/ \E c \in Conns : Connection(c) /\ UNCHANGED observed
    \/ \E c \in Conns :
            /\ OnMessage(c, TextData(HelloMsg("viewer", DemoSession, "c1")))
            /\ UNCHANGED observed
    \/ \E c \in Conns, d \in OpaqueData : OnMessage(c, d) /\ UNCHANGED observed
    \/ \E c \in Conns : OnClose(c) /\ UNCHANGED observed

SpecOpaque == Init /\ [][NextOpaque]_vars

\* The relay's connection of the viewing client.
PeerConn == CHOOSE c \in Conns \ {HostConn} : \A d \in Conns \ {HostConn} : c <= d

\* What the host's sendSecureChat puts on the wire for its first message:
\* ws.send of the JSON string of the frame, a text message.
SecureChatData ==
    TextData(EncryptedFrame(1, Aad(1), Iv(1),
                            AesGcmEncrypt(SessionKey, Encode(ChatText), Iv(1), Aad(1))))

\* The relay handles the host's secure chat; what it sends to the viewer's
\* connection arrives on the viewer's socket.
RelaySecureChat ==
    /\ OnMessage(HostConn, SecureChatData)
    /\ app' = IF sent'[PeerConn] # Nothing /\ app.wsRef # NoSocket
              THEN Arrives(app, app.wsRef, sent'[PeerConn])
              ELSE app
    /\ UNCHANGED <<history, rotations, bufferedAmount>>

\* A host and a viewer in the demo session: both connect to the relay and say
\* hello, the viewer loads the key, the host sends a secure chat.
NextSecureChat ==
    \/ \E c \in {HostConn, PeerConn} : Connection(c) /\ UNCHANGED observed
    \/ \E c \in {HostConn, PeerConn} :
            /\ OnMessage(c, TextData(HelloMsg(IF c = HostConn THEN "host" ELSE "viewer",
                                              DemoSession, "c1")))
            /\ UNCHANGED observed
    \/ SetSessionId(DemoSession)
    \/ HandleGenKey
    \/ ClickConnect
    \/ \E k \in Sockets : WsOnOpen(k)
    \/ RelaySecureChat
    \/ WsOnMessage

\* Message events are dispatched: a queued event reaches ws.onmessage.
SpecSecureChat == Init /\ [][NextSecureChat]_vars /\ WF_vars(WsOnMessage)

\* The host's secure chat frame as the relay hands it on: a text message as
\* the client sends it, or the same JSON as a binary message.
InboundFrames ==
    {SecureChatData, [isBinary |-> TRUE, text |-> SecureChatData.text]}

\* A client that connects, gets its key before or after that, and receives
\* frames.
NextReceive ==
    \/ SetSessionId(DemoSession)
    \/ HandleGenKey
    \/ ClickConnect
    \/ \E k \in Sockets : WsOnOpen(k)
    \/ \E k \in Sockets : app.readyState[k] = "OPEN" /\ WsOnClose(k)
    \/ \E k \in Sockets, d \in InboundFrames : Receive(k, d)
    \/ WsOnMessage

SpecReceive == Init /\ [][NextReceive]_vars

\* Another address for the relay, typed into the WebSocket URL field.
OtherUrl == "ws://relay.example/stream"

\* A user of either role logs in and uses the session controls the component
\* renders for them.
NextRoles ==
    \/ \E u \in {"streamer", "viewer"} : Login(u)
    \/ \E r \in {"host", "viewer"} : SetRole(r)
    \/ SetWsUrl(OtherUrl)
    \/ SetSessionId(DemoSession)
    \/ ClickConnect
    \/ \E k \in Sockets : WsOnOpen(k)
    \/ HandleRotate

SpecRoles == Init /\ [][NextRoles]_vars

\* A streamer's client over its connections, up to its first secure chat: the
\* open event, the latency timer, the retry timer and the user's rotate and
\* send clicks in any order.
NextHello ==
    \/ Login("streamer")
    \/ SetSessionId(DemoSession)
    \/ HandleGenKey
    \/ ClickConnect
    \/ \E k \in Sockets : WsOnOpen(k)
    \/ \E k \in Sockets : app.readyState[k] = "OPEN" /\ WsOnClose(k)
    \/ \E k \in Sockets : Retry(k)
    \/ LatencyPing
    \/ HandleRotate
    \/ app.frameCounter = 0 /\ SendSecureChat
    \/ \E p \in app.encrypting : Encrypted(p)

SpecHello == Init /\ [][NextHello]_vars

\* Everything a viewer's client puts on the wire up to its first secure chat.
NextWire ==
    \/ SetSessionId(DemoSession)
    \/ SetChatInput(ChatText)
    \/ HandleGenKey
    \/ ClickConnect
    \/ \E k \in Sockets : WsOnOpen(k)
    \/ \E k \in Sockets : app.readyState[k] = "OPEN" /\ WsOnClose(k)
    \/ LatencyPing
    \/ app.frameCounter = 0 /\ SendSecureChat
    \/ \E p \in app.encrypting : Encrypted(p)

SpecWire == Init /\ [][NextWire]_vars

(* ------------------------- key directory claims ------------------------ *)

\* The directory stores key bytes only; a session's epoch is the number of
\* times its stored key has been regenerated: 0 for the key of the first
\* generation.
Epoch(s) == generated[s] - 1

\* Exchange x is a key response of the given endpoint for session s.
IsKeyExchange(x, endpoint, s) ==
    /\ x.endpoint = endpoint
    /\ IsKeyResponse(x.resp)
    /\ x.resp.sessionId = s

\* The create-or-get (endpoint "session") or join exchanges for session s that
\* have returned a key to their caller, and those that are about to.
ReturnedKeys(endpoint, s) == {x \in BagToSet(returned) : IsKeyExchange(x, endpoint, s)}
PendingKeys(endpoint, s) == {x \in BagToSet(handling) : IsKeyExchange(x, endpoint, s)}

\* The join exchanges answered 404.
NotFoundJoins(bag) == {x \in BagToSet(bag) : x.endpoint = "join" /\ x.resp.status = 404}

\* C1: create-or-get is idempotent: however many create-or-get calls a session
\* has had, one key was generated for it, at epoch 0, and every call returned
\* that key, which is still the directory's entry.
C1_CreateIdempotent ==
    \A s \in SessionIds :
        /\ generated[s] <= 1
        /\ \A x \in ReturnedKeys("session", s) :
                /\ Epoch(s) = 0
                /\ x.resp.status = 200
                /\ x.resp.aesKeyB64 = EncodeToString(sessionKeys[s])
                /\ sessionKeys[s] \in KeySpace

\* Two create-or-get calls for one session have returned.
C1_Witness ==
    \E s \in SessionIds : \E x \in ReturnedKeys("session", s) :
        CopiesIn(x, returned) >= 2

\* C2: create-or-get calls for one session that are in progress at the same
\* time all hold the same key, the one key generated and stored for it.
C2_ConcurrentCreate ==
    \A s \in SessionIds :
        LET racing == PendingKeys("session", s)
        IN  racing # {} =>
                /\ generated[s] = 1
                /\ Cardinality(racing) = 1
                /\ \A x \in racing :
                        x.resp.aesKeyB64 = EncodeToString(sessionKeys[s])

\* Every exchange the run allows is a create-or-get for one session, and none
\* has been answered yet.
C2_Witness ==
    \E s \in SessionIds : \E x \in PendingKeys("session", s) :
        CopiesIn(x, handling) = MaxReq

\* C3: a join handled after a create-or-get for the same session has returned
\* answers 200 with the key that create-or-get returned.
C3_HostViewerAgreement ==
    [][\A m \in Methods, b \in Bodies :
          (Prechecked[m][b].pass /\ HandleJoinSession(m, b)) =>
              \A c \in ReturnedKeys("session", Prechecked[m][b].sid) :
                  handling' = handling (+) SetToBag({Exchange("join",
                      [status |-> 200,
                       sessionId |-> c.resp.sessionId,
                       aesKeyB64 |-> c.resp.aesKeyB64])})]_vars

\* A create-or-get and a join for one session have both returned a key.
C3_Witness ==
    \E s \in SessionIds :
        ReturnedKeys("session", s) # {} /\ ReturnedKeys("join", s) # {}

\* C4: a join for a session for which no key was ever generated answers 404
\* and carries no key.
C4_JoinUnknownNotFound ==
    [][\A m \in Methods, b \in Bodies :
          (/\ Prechecked[m][b].pass
           /\ generated[Prechecked[m][b].sid] = 0
           /\ HandleJoinSession(m, b)) =>
              \E x \in NotFoundJoins(handling') :
                  /\ ~IsKeyResponse(x.resp)
                  /\ handling' = handling (+) SetToBag({x})]_vars

\* A join was answered 404 while no key exists at all.
C4_Witness ==
    /\ \A s \in SessionIds : generated[s] = 0
    /\ NotFoundJoins(returned) # {}

\* C5: no join, whatever it answers, changes the directory: a step that
\* changes an entry or generates a key is not the join handler's.
C5_JoinPureLookup ==
    [][(sessionKeys' # sessionKeys \/ generated' # generated) =>
          \A m \in Methods, b \in Bodies : ~HandleJoinSession(m, b)]_vars

\* Two joins were answered 404 and, later, a join answered with the key a
\* create-or-get stored, which is still the stored one.
C5_Witness ==
    /\ \E x \in NotFoundJoins(returned) : CopiesIn(x, returned) >= 2
    /\ \E s \in SessionIds : \E x \in ReturnedKeys("join", s) :
            x.resp.aesKeyB64 = EncodeToString(sessionKeys[s])

\* C6: a session that has a key keeps having one, its epoch never decreases,
\* and while the epoch stays the same the key stays the same.
C6_EpochKeyImmutable ==
    [][\A s \in SessionIds :
          sessionKeys[s] # NoKey =>
              /\ sessionKeys'[s] # NoKey
              /\ Epoch(s)' >= Epoch(s)
              /\ (Epoch(s)' = Epoch(s) => sessionKeys'[s] = sessionKeys[s])]_vars

\* A session has a key, and two create-or-get calls and a join for it have
\* returned since it was stored.
C6_Witness ==
    \E s \in SessionIds :
        /\ \E x \in ReturnedKeys("session", s) : CopiesIn(x, returned) >= 2
        /\ ReturnedKeys("join", s) # {}
        /\ sessionKeys[s] # NoKey

(* ---------------------------- rotation claims -------------------------- *)

\* C7: whenever the relay handles a rotate message from a connection bound to
\* a session that has a key at epoch e, the directory is left at epoch e + 1
\* with a key different from the one of epoch e.
C7_RotationMonotonic ==
    [][\A c \in Conns, d \in WireData :
          (/\ OnMessage(c, d)
           /\ d.text = Stringify(RotateMsg)
           /\ clients[c].sessionId \in SessionIds
           /\ sessionKeys[clients[c].sessionId] # NoKey) =>
              LET s == clients[c].sessionId
              IN  /\ Epoch(s)' = Epoch(s) + 1
                  /\ sessionKeys'[s] # NoKey
                  /\ sessionKeys'[s] # sessionKeys[s]]_vars

\* C8: once a host's create-or-get has returned (epoch 0, K0) and the relay
\* has handled the host's rotate message, the directory is at epoch 1 and a
\* join handled afterwards returns a key K1 different from K0.
C8_EndToEndRotation ==
    [][\A m \in Methods, b \in Bodies :
          (/\ Prechecked[m][b].pass
           /\ Prechecked[m][b].sid \in rotateHandled
           /\ ReturnedKeys("session", Prechecked[m][b].sid) # {}
           /\ HandleJoinSession(m, b)) =>
              /\ Epoch(Prechecked[m][b].sid) = 1
              /\ \E k \in KeySpace :
                    /\ handling' = handling (+) SetToBag(
                          {Exchange("join", KeyResponse(Prechecked[m][b].sid, k))})
                    /\ \A c \in ReturnedKeys("session", Prechecked[m][b].sid) :
                          c.resp.aesKeyB64 # EncodeToString(k)]_vars

(* ----------------------------- relay claims ---------------------------- *)

\* C9: a message other than hello from a connection that has no session
\* binding is answered to nobody, forwarded to nobody, and closes the
\* connection.
C9_UnboundRejectsNonHello ==
    [][\A c \in Conns, d \in WireData :
          (/\ OnMessage(c, d)
           /\ clients[c].sessionId = NoSession
           /\ Dispatch(d.text) # "hello") =>
              /\ sent' = NothingSent
              /\ clients'[c].readyState = "CLOSED"]_vars

\* C10: once a connection has a session id, its session id and role stay what
\* they are for as long as the connection lives.
C10_BindingImmutable ==
    [][\A c \in Conns :
          (/\ clients[c].sessionId # NoSession
           /\ clients[c].readyState = "OPEN"
           /\ clients'[c].readyState = "OPEN") =>
              /\ clients'[c].sessionId = clients[c].sessionId
              /\ clients'[c].role = clients[c].role]_vars

(* ---------------------------- fan-out claims --------------------------- *)

\* A connection is Bound when it is open and a hello has given it a session id.
Bound(c) == clients[c].readyState = "OPEN" /\ clients[c].sessionId # NoSession

\* The message text is an encrypted frame: JSON with a counter.
IsFrame(text) == text.json /\ "counter" \in DOMAIN text.obj

\* The other connections Bound to the session of c.
BoundPeers(c) ==
    {p \in Conns \ {c} : Bound(p) /\ clients[p].sessionId = clients[c].sessionId}

\* C11: a frame from a Bound connection is delivered to every other connection
\* Bound to the same session and to no one else: not to the sender, not to an
\* unbound connection, not to a member of another session.
C11_FrameFanOutExact ==
    [][\A c \in Conns, d \in WireData :
          (/\ IsFrame(d.text)
           /\ Bound(c)
           /\ OnMessage(c, d)) =>
              Receivers(sent') = BoundPeers(c)]_vars

\* C12: no chat or frame is delivered to all connections by default: one from
\* a sender without a session binding is delivered to nobody, and one from a
\* sender bound to a session only to connections bound to that session.
C12_NoBroadcastFallback ==
    [][\A c \in Conns, d \in WireData :
          (/\ d.text.json
           /\ TypeOf(d.text.obj) = "chat" \/ IsFrame(d.text)
           /\ OnMessage(c, d)) =>
              \A p \in Receivers(sent') :
                  /\ clients[c].sessionId # NoSession
                  /\ clients[p].sessionId = clients[c].sessionId]_vars

(* ----------------------------- replay claims --------------------------- *)

\* The fan-outs in the history of frames that connection c sent under its
\* present binding: the (session, client id, kind) of its replay window.
FanOutsOf(c, kind) ==
    {i \in 1..Len(history) :
        /\ history[i].from = c
        /\ history[i].sessionId = clients[c].sessionId
        /\ history[i].clientId = clientIds[c]
        /\ history[i].kind = kind}

\* The counters of c's frames that were sent to at least one peer.
ForwardedCounters(c, kind) ==
    {history[i].counter : i \in {j \in FanOutsOf(c, kind) : history[j].to # {}}}

Max(S) == CHOOSE n \in S : \A m \in S : m <= n

\* C13: a frame whose counter was already forwarded to peers for the sender's
\* (session, client id, kind) is forwarded to nobody.
C13_NoReplay ==
    [][\A c \in Conns, n \in Counters :
          (/\ Bound(c)
           /\ n \in ForwardedCounters(c, FrameMsg(n).kind)
           /\ OnFrame(c, n)) =>
              Receivers(sent') = {}]_vars

\* C14: a frame whose counter is at or below h - W, for h the highest counter
\* forwarded for the sender's (session, client id, kind) and W the window
\* width, is forwarded to nobody.
C14_StaleDropped ==
    [][\A c \in Conns, n \in Counters :
          (/\ Bound(c)
           /\ ForwardedCounters(c, FrameMsg(n).kind) # {}
           /\ n <= Max(ForwardedCounters(c, FrameMsg(n).kind)) - WindowWidth
           /\ OnFrame(c, n)) =>
              Receivers(sent') = {}]_vars

\* The sliding-window reference: a counter is accepted when it is above the
\* highest accepted one, or inside the window and not accepted before.
ReferenceAccept(seen, n) ==
    \/ seen = {}
    \/ n > Max(seen)
    \/ n > Max(seen) - WindowWidth /\ n \notin seen

\* The counters the reference has accepted after a sequence of submissions.
RECURSIVE ReferenceSeen(_)
ReferenceSeen(counters) ==
    IF counters = <<>> THEN {}
    ELSE LET seen == ReferenceSeen(SubSeq(counters, 1, Len(counters) - 1))
             n == counters[Len(counters)]
         IN  IF ReferenceAccept(seen, n) THEN seen \cup {n} ELSE seen

\* The counters connection c has submitted under its present binding, in order.
Submitted(c, kind) ==
    LET own(e) == /\ e.from = c
                  /\ e.sessionId = clients[c].sessionId
                  /\ e.clientId = clientIds[c]
                  /\ e.kind = kind
        sel == SelectSeq(history, own)
    IN  [i \in 1..Len(sel) |-> sel[i].counter]

\* C15: the relay forwards a frame exactly when the sliding-window reference
\* accepts its counter after the counters the sender has submitted so far:
\* above the highest, or in the window and unseen; a duplicate is not.
C15_WindowReference ==
    [][\A c \in Conns, n \in Counters :
          (/\ Bound(c)
           /\ BoundPeers(c) # {}
           /\ OnFrame(c, n)) =>
              (Receivers(sent') # {} <=>
                  ReferenceAccept(ReferenceSeen(Submitted(c, FrameMsg(n).kind)), n))]_vars

\* C16: the frames of one sender and kind that the relay delivers to a peer
\* carry strictly increasing counters in delivery order: a frame is delivered
\* to a peer only if its counter is above every counter of that sender and
\* kind delivered to that peer before.
C16_InOrderOrRejected ==
    [][\A c \in Conns, n \in Counters :
          (Bound(c) /\ OnFrame(c, n)) =>
              \A p \in Receivers(sent') :
                  \A i \in FanOutsOf(c, FrameMsg(n).kind) :
                      p \in history[i].to => history[i].counter < n]_vars

(* ---------------------------- control claims --------------------------- *)

\* The message text is a metric message.
IsMetric(text) == text.json /\ TypeOf(text.obj) = "metric"

\* The pong the relay sends: JSON.stringify({ type: "pong" }) as text.
Pong == [isBinary |-> FALSE, text |-> Stringify(PongMsg)]

\* C17: a metric message is answered with one pong to the connection that
\* sent it and with nothing to any other connection, and it changes no
\* binding, membership or key.
C17_MetricPong ==
    [][\A c \in Conns, d \in ClientData :
          (IsMetric(d.text) /\ OnMessage(c, d)) =>
              /\ sent' = [NothingSent EXCEPT ![c] = Pong]
              /\ UNCHANGED <<clients, clientIds, rotateHandled, keyVars>>]_vars

\* A connection has just been answered with a pong while another connection
\* bound to the same session is open and was sent nothing.
C17_Witness ==
    \E c \in Conns : \E p \in BoundPeers(c) :
        /\ Bound(c)
        /\ sent[c] = Pong
        /\ sent[p] = Nothing

\* C18: a rotate message is consumed by the relay: it is delivered to no
\* connection, and when its sender is bound to a session that has a key the
\* directory moves that session to its next epoch.
C18_RotateConsumed ==
    [][\A c \in Conns :
          OnMessage(c, [isBinary |-> FALSE, text |-> Stringify(RotateMsg)]) =>
              /\ Receivers(sent') = {}
              /\ (/\ Bound(c)
                  /\ sessionKeys[clients[c].sessionId] # NoKey) =>
                      Epoch(clients[c].sessionId)' = Epoch(clients[c].sessionId) + 1]_vars

\* No two connections Bound to one session are registered under one client id.
NoDuplicateClient ==
    \A c \in Conns : \A p \in BoundPeers(c) :
        Bound(c) => clientIds[c] # clientIds[p]

\* C19: no two Bound connections of a session share a client id: a hello
\* whose client id another Bound connection of that session is registered
\* under leaves the new connection closed and unbound.
C19_DuplicateClient ==
    [][\A c \in Conns, d \in WireData :
          (/\ d.text.json
           /\ TypeOf(d.text.obj) = "hello"
           /\ \E p \in Conns \ {c} :
                 /\ Bound(p)
                 /\ clients[p].sessionId = d.text.obj.sessionId
                 /\ clientIds[p] = d.text.obj.clientId
           /\ OnMessage(c, d)) =>
              /\ clients'[c].readyState = "CLOSED"
              /\ NoDuplicateClient']_vars

\* C20: a connection that is closing or closed stays so and is never Bound
\* again, a closed one is a member of no session, and nothing a handler sends
\* afterwards goes to it.
C20_ClosedTerminal ==
    [][\A c \in Conns :
          clients[c].readyState \in {"CLOSING", "CLOSED"} =>
              /\ clients'[c].readyState \in {"CLOSING", "CLOSED"}
              /\ clients'[c].readyState = "CLOSED" =>
                    /\ clients'[c].sessionId = NoSession
                    /\ clientIds'[c] = NoClient
              /\ sent'[c] = Nothing]_vars

\* A frame or chat has just been fanned out to a member of a session while
\* another connection that was bound to that session is closing.
C20_Witness ==
    \E c \in Conns, p \in Conns :
        /\ clients[c].readyState = "CLOSING"
        /\ clients[c].sessionId # NoSession
        /\ Bound(p)
        /\ clients[p].sessionId = clients[c].sessionId
        /\ sent[p] \notin {Nothing, Pong}

(* ------------------------- error handling claims ----------------------- *)

\* C21: data that is not JSON, arriving on a Bound connection, is a protocol
\* error: it is forwarded to no peer and the connection is closed.
C21_OtherShapeRejected ==
    [][\A c \in Conns, d \in WireData :
          (/\ ~d.text.json
           /\ Bound(c)
           /\ OnMessage(c, d)) =>
              /\ Receivers(sent') = {}
              /\ clients'[c].readyState = "CLOSED"]_vars

\* C22: whatever arrives on one connection, malformed or out of state, its
\* handler leaves every other connection as it was: open if it was open, with
\* the same session id, role and client id. A step that changes another
\* connection is not the handler of this one.
C22_FailureScoped ==
    [][\A c \in Conns :
          (/\ clients[c].readyState = "OPEN"
           /\ \E p \in Conns \ {c} :
                 clients'[p] # clients[p] \/ clientIds'[p] # clientIds[p]) =>
              \A d \in WireData : ~OnMessage(c, d)]_vars

\* Data that is not JSON has just been handled and forwarded to a connection
\* that is Bound, while another connection is open without a binding.
C22_Witness ==
    \E p \in Conns, q \in Conns :
        /\ Bound(p)
        /\ sent[p] # Nothing
        /\ ~sent[p].text.json
        /\ clients[q].readyState = "OPEN"
        /\ clients[q].sessionId = NoSession

\* C23: a frame the replay window rejects (a duplicate or a stale counter,
\* by the sliding-window reference) is dropped silently: nothing is sent to
\* any peer nor to the sender, and the sender stays Bound as it was.
C23_RejectedDroppedSilently ==
    [][\A c \in Conns, n \in Counters :
          (/\ Bound(c)
           /\ ~ReferenceAccept(ReferenceSeen(Submitted(c, FrameMsg(n).kind)), n)
           /\ OnFrame(c, n)) =>
              /\ sent' = NothingSent
              /\ clients' = clients
              /\ clientIds' = clientIds]_vars

(* ----------------------------- eviction claim -------------------------- *)

\* C24: a session that has a key and no further activity eventually has its
\* key entry removed (requests stop arriving in every run, so every session
\* ends up idle for good), and a join handled while the entry is gone
\* answers 404.
C24_IdleEviction ==
    /\ \A s \in SessionIds : (sessionKeys[s] # NoKey) ~> (sessionKeys[s] = NoKey)
    /\ [][\A m \in Methods, b \in Bodies :
            (/\ Prechecked[m][b].pass
             /\ sessionKeys[Prechecked[m][b].sid] = NoKey
             /\ HandleJoinSession(m, b)) =>
                NotFoundJoins(handling') # NotFoundJoins(handling)
                \/ \E x \in NotFoundJoins(handling') :
                        CopiesIn(x, handling') > CopiesIn(x, handling)]_vars

(* ------------------------ rotation without a key ----------------------- *)

\* The sessions for which a rotate message was handled while the directory
\* held no key for them.
RotatedWithoutKey == {r.sessionId : r \in {x \in rotations : ~x.hadKey}}

\* A join exchange answered 404 was added to the exchanges in progress.
NotFoundAdded ==
    \E x \in NotFoundJoins(handling') : handling' = handling (+) SetToBag({x})

C27_Backpressure ==
    [][/\ \A c \in Conns : bufferedAmount'[c] <= QueueLimit
       /\ \A c \in Conns :
            (Bound(c) /\ Relay(c, FrameData(1))) => BoundPeers(c) \subseteq Receivers(sent')]_vars

(* ------------------------------ client claims -------------------------- *)

\* The socket was created by the retry timer of an earlier socket.
Retried(k) == app.retryOf[k] # NoSocket

\* C28: whenever the client's connection is closed, a new connection attempt
\* is eventually started; an attempt started by the retry timer is for the
\* session of the connection that closed; and a socket that has opened has
\* sent hello for its session with the client's id.
C28_Reconnect ==
    /\ \A k \in 1..(MaxSockets - 1) :
            (app.wsRef = k /\ app.readyState[k] = "CLOSED") ~> (app.readyState[k + 1] # "NONE")
    /\ [](\A k \in Sockets :
            /\ Retried(k) => app.closure[k] = app.closure[app.retryOf[k]]
            /\ app.readyState[k] = "OPEN" =>
                    /\ app.hello[k] # Nothing
                    /\ app.hello[k].type = "hello"
                    /\ app.hello[k].sessionId = app.closure[k]
                    /\ app.hello[k].clientId = app.clientId)

\* The first connection closed, its timer started the second for the same
\* session after the session field was changed, and the second has opened.
C28_Witness ==
    /\ app.readyState[1] = "CLOSED"
    /\ app.retryOf[2] = 1
    /\ app.readyState[2] = "OPEN"
    /\ app.sessionId # app.closure[1]
    /\ app.hello[2].sessionId = app.closure[1]

\* C29: every frame the client sends carries a counter greater than the
\* counter of every frame it sent before.
C29_CountersIncrease ==
    \A i, j \in 1..Len(app.frames) :
        i < j => app.frames[i].frame.counter < app.frames[j].frame.counter

\* C30: the additional data of every frame the client sends decodes to the
\* bytes of kind ":" counter, for the kind and the counter of that frame.
C30_AadBindsKindCounter ==
    \A i \in 1..Len(app.frames) :
        LET f == app.frames[i].frame
        IN  B64ToBytes(f.aadB64) = Encode(Chars(f.kind) \o <<":">> \o ToDecimal(f.counter))

\* Frames with different counters were sent, one of them after a reconnect.
C30_Witness ==
    /\ Len(app.frames) >= 2
    /\ \E i, j \in 1..Len(app.frames) :
            /\ app.frames[i].socket # app.frames[j].socket
            /\ app.frames[i].frame.counter # app.frames[j].frame.counter

(* ------------------------- rejected key requests ----------------------- *)

\* The response of a request the handlers turn away before the map: 200 with
\* an empty body, 405 or 400.
Rejected(resp) ==
    \/ resp = EmptyResponse
    \/ resp.status \in {400, 405}

\* C40: a step that builds the response of a rejected request (preflight,
\* wrong method, missing or empty sessionId), on either endpoint, leaves every
\* entry of the key directory and the count of generated keys as they were.
C40_RejectedLeavesDirectory ==
    [][(\E x \in BagToSet(handling') :
            /\ CopiesIn(x, handling') > CopiesIn(x, handling)
            /\ Rejected(x.resp)) =>
          /\ sessionKeys' = sessionKeys
          /\ generated' = generated]_vars

\* With a key stored for one session and none for the other, both endpoints
\* have answered a preflight, a wrong method and a missing sessionId.
C40_Witness ==
    /\ \E s, t \in SessionIds : sessionKeys[s] # NoKey /\ sessionKeys[t] = NoKey
    /\ \E x, y, z \in BagToSet(returned) \cup BagToSet(handling) :
            /\ x.resp = EmptyResponse
            /\ y.resp.status = 405
            /\ z.resp.status = 400
            /\ {x.endpoint, y.endpoint, z.endpoint} = {"session", "join"}

(* ---------------------------- fan-out content -------------------------- *)

\* The chat control messages among the data the relay is given.
ChatData == {d \in WireData : d.text.json /\ TypeOf(d.text.obj) = "chat"}

\* C34: a chat control message from a connection bound to a session is
\* delivered, with the text it arrived with, to every open connection bound to
\* that session, the sender included, and to no connection bound to another
\* session.
C34_ChatFanOut ==
    [][\A c \in Conns, d \in ChatData :
          (/\ Bound(c)
           /\ OnMessage(c, d)) =>
              \A p \in Conns :
                  /\ (Bound(p) /\ clients[p].sessionId = clients[c].sessionId) =>
                        (sent'[p] # Nothing /\ sent'[p].text = d.text)
                  /\ (Bound(p) /\ clients[p].sessionId # clients[c].sessionId) =>
                        sent'[p] = Nothing]_vars

\* A chat has just gone to two members of one session and not to a member of
\* another.
C34_Witness ==
    \E p, q, r \in Conns :
        /\ p # q
        /\ Bound(p) /\ Bound(q) /\ Bound(r)
        /\ clients[p].sessionId = clients[q].sessionId
        /\ clients[r].sessionId # clients[p].sessionId
        /\ sent[p] = TextData(ChatMsg)
        /\ sent[q] = TextData(ChatMsg)
        /\ sent[r] = Nothing

\* C35: whatever the forward loop delivers to a peer is the data the sender
\* sent: the same text, nothing added, removed or rewritten, and the same
\* text or binary framing.
C35_OpaqueForward ==
    [][\A c \in Conns, d \in WireData :
          (/\ ~d.text.json \/ TypeOf(d.text.obj) \notin {"metric", "hello", "chat"}
           /\ OnMessage(c, d)) =>
              \A p \in Receivers(sent') :
                  /\ sent'[p].text = d.text
                  /\ sent'[p].isBinary = d.isBinary]_vars

\* A frame that came as a binary message has just been delivered to a peer.
C35_Witness ==
    \E p \in Conns :
        /\ sent[p] # Nothing
        /\ sent[p].isBinary
        /\ IsFrame(sent[p].text)

(* --------------------------- client connection ------------------------- *)

\* The sockets of the client that are connecting or open.
Live == {k \in Sockets : app.readyState[k] \in {"CONNECTING", "OPEN"}}

\* C37: the client has at most one live WebSocket at any time.
C37_OneLiveSocket == Cardinality(Live) <= 1

\* C39: every counter sendSecureChat has taken belongs to a frame that was
\* sent or to a call that is still encrypting and goes on to send, and a call
\* made without a key or without an open socket takes no counter and sends
\* nothing.
C39_CounterOnlyWhenSent ==
    [][/\ \A n \in 1..app'.frameCounter :
            \/ \E i \in 1..Len(app'.frames) : app'.frames[i].frame.counter = n
            \/ \E p \in app'.encrypting : p.counter = n
       /\ (~app.aesKey \/ ~AlreadyOpen(app)) =>
            (SendSecureChat => app' = app)]_vars

(* ------------------------------ secure chat ---------------------------- *)

\* The viewer's log shows the host's chat text as a decrypted secure chat.
ShownSecure ==
    \E l \in app.log : l.kind = "secure" /\ l.text = Encode(ChatText)

\* C31: a secure chat frame of the host is delivered by the relay to a viewer
\* bound to the same session, and a viewer that holds the key, on a socket
\* opened with the key loaded, eventually shows the decrypted text in its log.
C31_SecureChatEndToEnd ==
    /\ [][(Bound(HostConn) /\ Bound(PeerConn) /\ RelaySecureChat) =>
            sent'[PeerConn] = SecureChatData]_vars
    /\ (\E i \in 1..Len(app.inbox) :
            /\ app.inbox[i].data = SecureChatData
            /\ app.aesKey
            /\ app.keyAt[app.inbox[i].socket]) ~> ShownSecure

\* C38: a frame received after the client got its key, on a socket that was
\* opened before the key was there, is decrypted with that key: its handler
\* adds the decrypted text to the log and does not report that no key is
\* loaded.
C38_DecryptWithLoadedKey ==
    [][(/\ app.inbox # <<>>
        /\ Head(app.inbox).hadKey
        /\ ~app.keyAt[Head(app.inbox).socket]
        /\ IsFrame(Head(app.inbox).data.text)
        /\ WsOnMessage) =>
            /\ ShownSecure'
            /\ [kind |-> "nokey"] \notin app'.log \ app.log]_vars

(* ------------------------- what the client sends ----------------------- *)

\* The sockets the client has sent a frame on.
FrameSockets == {app.frames[i].socket : i \in 1..Len(app.frames)}

\* C32: chat text leaves the client only inside the payload of an encrypted
\* frame, sealed under the loaded session key; the other fields of a frame are
\* the kind, the counter, a nonce and additional data that are neither the
\* text nor the key; and a hello carries neither the text nor the key.
C32_NoPlaintextOnWire ==
    /\ \A i \in 1..Len(app.frames) :
            LET f == app.frames[i].frame
            IN  /\ DOMAIN f = {"kind", "ivB64", "aadB64", "payloadB64", "counter"}
                /\ f.payloadB64.b64.sealed
                /\ f.payloadB64.b64.key = SessionKey
                /\ B64ToBytes(f.ivB64) \notin {SessionKey, Encode(ChatText)}
                /\ B64ToBytes(f.aadB64) \notin {SessionKey, Encode(ChatText)}
    /\ \A k \in Sockets :
            app.hello[k] # Nothing =>
                /\ DOMAIN app.hello[k] = {"type", "role", "sessionId", "clientId", "userName"}
                /\ app.hello[k].sessionId \notin {ChatText, EncodeToString(SessionKey)}

\* A frame carrying the text the user typed has been sent, sealed.
C32_Witness ==
    \E i \in 1..Len(app.frames) :
        /\ app.frames[i].frame.payloadB64.b64.plaintext = Encode(ChatText)
        /\ app.hello[app.frames[i].socket] # Nothing
        /\ app.frames[i].socket \in app.pings

\* C33: while the client's role is not host, no step sends a rotate or
\* changes the WebSocket URL (other than a new login starting from the
\* default), and the host role is only held by a user logged in as streamer.
C33_ViewerLeastPrivilege ==
    /\ [][app.role # "host" =>
            /\ app'.rotated = app.rotated
            /\ app'.wsUrl = app.wsUrl \/ app'.wsUrl = Mounted.wsUrl]_vars
    /\ [](app.role = "host" => app.user = "streamer")

\* A streamer who changed the URL and rotated as host is now in the viewer
\* role on an open socket.
C33_Witness ==
    /\ app.user = "streamer"
    /\ app.role = "viewer"
    /\ app.rotated # {}
    /\ app.wsUrl = OtherUrl
    /\ AlreadyOpen(app)

\* C36: the first message on every socket the client has used is its hello,
\* with the client's role, the session id and the client id: a metric, a
\* rotate or a frame is only ever sent on a socket that has said hello.
C36_HelloFirst ==
    \A k \in Sockets :
        /\ app.first[k] \in {"", "hello"}
        /\ k \in app.pings \cup app.rotated \cup FrameSockets =>
                /\ app.first[k] = "hello"
                /\ app.hello[k] # Nothing
                /\ app.hello[k].type = "hello"
                /\ app.hello[k].role \in {"host", "viewer"}
                /\ app.hello[k].sessionId = app.closure[k]
                /\ app.hello[k].sessionId # NoSession
                /\ app.hello[k].clientId = app.clientId

\* A socket made by the retry timer has carried hello, a metric, a rotate and
\* a frame.
C36_Witness ==
    \E k \in Sockets :
        /\ Retried(k)
        /\ app.first[k] = "hello"
        /\ k \in app.pings
        /\ k \in app.rotated
        /\ k \in FrameSockets

====
